---- MODULE Spec2Model ----
(***************************************************************************)
(* Ingestion pipeline of cti_scraper: ScraperOrchestrator polling the      *)
(* configured sources (RSS feeds and plain web pages), the admission gate  *)
(* of _save_article, the per-source health counters and the source-check   *)
(* history, over a relational store with uniqueness constraints.           *)
(*                                                                         *)
(* Every invocation (a scheduled pass, a background task, an API request)  *)
(* builds its own ScraperOrchestrator around its own AsyncSession.  The    *)
(* store is the committed state; a session holds the Source object it      *)
(* loaded and, after a failed flush, the exception that rolled its         *)
(* transaction back.  The orchestrator never calls rollback(), so from     *)
(* then on every statement of that session raises.                         *)
(***************************************************************************)
EXTENDS Integers, Sequences, FiniteSets, TLC

VARIABLES
    now,            \* datetime.utcnow(), in ticks
    started,        \* number of invocations started so far
    sources,        \* table sources: identifier -> row
    articles,       \* table articles, in insertion (id) order
    checks,         \* table source_checks, per source, in insertion order
    pc,             \* position of each invocation
    mode,           \* "all" = scrape_all_sources, "one" = scrape_source_by_identifier
    queue,          \* source configs the pass has still to visit
    cur,            \* source_config being polled (0: none)
    found,          \* result of the select in _get_or_create_source
    loaded,         \* the session's Source object, as last refreshed
    sessionError,   \* exception that rolled the session's transaction back
    attempts,       \* calls of the fetcher body made in the current poll
    fetchError,     \* kind of failure of the last fetch attempt
    cands,          \* article_data still to be offered to _save_article
    new_count,      \* new_count of the current poll
    ret,            \* how the poll of cur ended
    results,        \* the results dict of the invocation
    \* ContentClassifier (one instance, called from several threads)
    use_fallback,           \* self.use_fallback
    hunt_score_threshold,   \* self.hunt_score_threshold, in tenths of a point
    _load_attempted,        \* self._load_attempted
    _model_loaded,          \* self._model_loaded
    load_count,             \* loads of the artifacts started so far
    calls,                  \* calls of classify / classify_batch started so far
    th,                     \* the frame of each thread's call
    \* ContentClassifier._fallback_classify on its own
    hunt_score,             \* threat_hunting_score of the text, in tenths
    fallback_result,        \* the ClassificationResult it returns
    \* HuntScorer.score_article
    full_text,              \* the text, as the set of keywords that match it
    found_matches,          \* the match lists, per category
    match_counts,           \* len() of the match lists
    score_result,           \* the category scores and threat_hunting_score
    scorer_pc,              \* position in score_article
    \* ContentChunker.chunk_article
    chunker,                \* min_chunk_words, target_chunk_words, max_chunk_words, overlap_sentences
    title,                  \* words of the title ('' has none)
    content,                \* the paragraphs of the normalized content
    todo,                   \* paragraphs the loop of _build_chunks has still to take
    current_text,           \* current_text, as its sentences
    chunks,                 \* the chunks built so far
    chunker_pc,              \* position in chunk_article
    \* ContentChunker.chunk_for_annotation
    annotation_content,     \* the normalized content, as its characters
    window_size,            \* window_size, in characters
    step_size,              \* step_size, in characters
    position,               \* position of the sliding window
    annotation_chunks,      \* the chunks appended so far
    annotation_pc,           \* position in chunk_for_annotation
    \* RSSParserService.parse_feed
    feed,                    \* what feedparser.parse returns for the feed URL
    \* WebScraperService: extraction of the candidates from a page
    soup,                   \* the parsed page, as the elements the extraction looks at
    selector_config,        \* whether the source configures CSS selectors
    page_articles,          \* the articles list scrape_page returns
    page_pc,                 \* position in scrape_page
    \* activate_model (api/routes/ml.py), one transaction per request
    is_active,              \* ml_model_versions.is_active, as committed
    activations,            \* requests of activate_model started so far
    request_pc,             \* position of each request in activate_model
    model_id,               \* the model_id of each request
    model,                  \* is_active of the object session.get loaded
    remaining,              \* rows the UPDATE of the request has still to reach
    deactivated             \* rows the request has set inactive, not yet committed

scraperVars == <<now, started, sources, articles, checks, pc, mode, queue, cur, found,
                 loaded, sessionError, attempts, fetchError, cands, new_count, ret,
                 results>>
classifierVars == <<use_fallback, _load_attempted, _model_loaded, load_count, calls, th>>
fallbackVars == <<hunt_score_threshold, hunt_score, fallback_result>>
scorerVars == <<full_text, found_matches, match_counts, score_result, scorer_pc>>
chunkerVars == <<chunker, title, content, todo, current_text, chunks, chunker_pc>>
annotationVars == <<annotation_content, window_size, step_size, position, annotation_chunks, annotation_pc>>
feedVars == <<feed>>
pageVars == <<soup, selector_config, page_articles, page_pc>>
activationVars == <<is_active, activations, request_pc, model_id, model, remaining, deactivated>>

\* what the orchestrator does not touch
serviceVars == <<classifierVars, fallbackVars, scorerVars, chunkerVars, annotationVars, feedVars, pageVars, activationVars>>

\* what each service leaves alone
outsideClassifier == <<scraperVars, fallbackVars, scorerVars, chunkerVars, annotationVars, feedVars, pageVars, activationVars>>
outsideFallback == <<scraperVars, classifierVars, scorerVars, chunkerVars, annotationVars, feedVars, pageVars, activationVars>>
outsideScorer == <<scraperVars, classifierVars, fallbackVars, chunkerVars, annotationVars, feedVars, pageVars, activationVars>>
outsideChunker == <<scraperVars, classifierVars, fallbackVars, scorerVars, annotationVars, feedVars, pageVars, activationVars>>

outsideAnnotation == <<scraperVars, classifierVars, fallbackVars, scorerVars, chunkerVars, feedVars, pageVars, activationVars>>

outsideFeed == <<scraperVars, classifierVars, fallbackVars, scorerVars, chunkerVars, annotationVars, pageVars, activationVars>>

outsidePage == <<scraperVars, classifierVars, fallbackVars, scorerVars, chunkerVars, annotationVars, feedVars, activationVars>>

outsideActivation == <<scraperVars, classifierVars, fallbackVars, scorerVars, chunkerVars, annotationVars, feedVars, pageVars>>

vars == <<scraperVars, classifierVars, fallbackVars, scorerVars, chunkerVars, annotationVars, feedVars, pageVars, activationVars>>

(***************************************************************************)
(* Bounds of the model.                                                    *)
(***************************************************************************)
MaxClock == 2
MaxInvocations == 2
MaxLen == 2
MaxLenConcurrent == 1
MaxCalls == 3
MaxBatch == 2
MaxBatchThreads == 1
MaxThresholdSteps == 8
MaxMatches == 11
MaxNegativeMatches == 2
MaxChunkWords == 4
MaxParagraphs == 2
MaxSentenceWords == 2
MaxContentChars == 3
MaxWindowSize == 2
MaxStepSize == 3
MaxEntryContent == 3
MaxPageElements == 2
MaxVersions == 2
MaxActivations == 3

(***************************************************************************)
(* Configuration and inputs.                                               *)
(***************************************************************************)
AllInvs == {1, 2}

\* retry(stop=stop_after_attempt(3)) on scrape_page
StopAfterAttempt == 3

Sources == {1, 2}
RssSources == {1}
WebSources == Sources \ RssSources

\* scrape_all_sources visits the sources with a feed first, then the others
Roster == <<1, 2>>

check_frequency(s) == IF s \in RssSources THEN 2 ELSE 1

\* article_data as the fetchers return it: content_hash and url.  Candidates
\* 1 and 2 are two versions of one page (same url, different fingerprint).
Candidates ==
    { [content_hash |-> 1, url |-> 1],
      [content_hash |-> 2, url |-> 1],
      [content_hash |-> 3, url |-> 2] }

RECURSIVE SeqsUpTo(_, _)
SeqsUpTo(S, n) ==
    IF n = 0 THEN { <<>> }
    ELSE LET shorter == SeqsUpTo(S, n - 1)
         IN  shorter \cup { Append(q, x) : q \in { r \in shorter : Len(r) = n - 1 }, x \in S }

FetchResults == SeqsUpTo(Candidates, MaxLen)
FetchResultsConcurrent == SeqsUpTo(Candidates, MaxLenConcurrent)

FetchOutcomes == {"ok", "transient", "permanent"}

(***************************************************************************)
(* The store.                                                              *)
(***************************************************************************)
\* defaults of the Source columns
NewSource ==
    [exists |-> TRUE, last_check |-> 0, last_success |-> 0,
     consecutive_failures |-> 0, total_articles |-> 0]

NoSource ==
    [exists |-> FALSE, last_check |-> 0, last_success |-> 0,
     consecutive_failures |-> 0, total_articles |-> 0]

EmptyResults ==
    [total_articles_found |-> 0, new_articles_saved |-> 0,
     duplicate_articles_skipped |-> 0, errors |-> <<>>, success |-> "unset"]

HashExists(arts, h) == \E k \in 1..Len(arts) : arts[k].content_hash = h
UrlExists(arts, u) == \E k \in 1..Len(arts) : arts[k].canonical_url = u

\* An INSERT into articles that drops the unique constraints.
UniqueViolationUnconstrained(arts, a) == "none"

\* The unique constraints of Article: canonical_url and content_hash.
UniqueViolation(arts, a) ==
    IF HashExists(arts, a.content_hash) THEN "content_hash"
    ELSE IF UrlExists(arts, a.canonical_url) THEN "canonical_url"
    ELSE "none"

\* The unit of work writes the columns whose value differs from the loaded one.
FlushSource(row, old, new) ==
    [exists |-> TRUE,
     last_check |-> IF new.last_check # old.last_check THEN new.last_check ELSE row.last_check,
     last_success |-> IF new.last_success # old.last_success THEN new.last_success ELSE row.last_success,
     consecutive_failures |->
        IF new.consecutive_failures # old.consecutive_failures
        THEN new.consecutive_failures ELSE row.consecutive_failures,
     total_articles |->
        IF new.total_articles # old.total_articles
        THEN new.total_articles ELSE row.total_articles]

(***************************************************************************)
(* ScraperOrchestrator.                                                    *)
(***************************************************************************)
\* due check with the operands of the comparison swapped
ShouldScrapeSwapped(source, frequency, t) ==
    source.last_check = 0 \/ frequency >= t - source.last_check

_should_scrape(source, frequency, t) ==
    source.last_check = 0 \/ t - source.last_check >= frequency

\* The Source object after a failed check, counting once per retry attempt.
FailedHealthPerAttempt(source, t) ==
    [source EXCEPT !.last_check = t,
                   !.consecutive_failures = source.consecutive_failures + StopAfterAttempt]

\* source.last_check = utcnow(); source.consecutive_failures += 1
FailedHealth(source, t) ==
    [source EXCEPT !.last_check = t,
                   !.consecutive_failures = source.consecutive_failures + 1]

\* The update after a successful fetch, leaving the failure streak as it was.
SucceededHealthKeepsStreak(source, t, n) ==
    [source EXCEPT !.last_check = t, !.last_success = t,
                   !.total_articles = source.total_articles + n]

\* the update of the Source object after a successful fetch
SucceededHealth(source, t, n) ==
    [source EXCEPT !.last_check = t, !.last_success = t,
                   !.consecutive_failures = 0,
                   !.total_articles = source.total_articles + n]

\* A commit issued before the Source attributes are assigned.
CommitCheckEarly(row, old, new) == row

\* db.commit() of a poll: the SourceCheck row and the Source update in one transaction
CommitCheck(row, old, new) == FlushSource(row, old, new)

\* scrape_page catches every exception and returns a failure dict
scrape_page_raises(outcome) == FALSE

\* tenacity calls the function again when it raised and attempts remain
retry_again(raised, n) == raised /\ n < StopAfterAttempt

InvVarsIdle(i) ==
    /\ cur' = [cur EXCEPT ![i] = 0]
    /\ queue' = [queue EXCEPT ![i] = <<>>]
    /\ found' = [found EXCEPT ![i] = FALSE]
    /\ loaded' = [loaded EXCEPT ![i] = NoSource]
    /\ attempts' = [attempts EXCEPT ![i] = 0]
    /\ fetchError' = [fetchError EXCEPT ![i] = "none"]
    /\ cands' = [cands EXCEPT ![i] = <<>>]
    /\ new_count' = [new_count EXCEPT ![i] = 0]
    /\ ret' = [ret EXCEPT ![i] = "none"]

\* start of _scrape_rss_source / _scrape_web_source for source s
EnterSource(i, s, rest) ==
    /\ pc' = [pc EXCEPT ![i] = "select_source"]
    /\ cur' = [cur EXCEPT ![i] = s]
    /\ queue' = [queue EXCEPT ![i] = rest]
    /\ found' = [found EXCEPT ![i] = FALSE]
    /\ loaded' = [loaded EXCEPT ![i] = NoSource]
    /\ attempts' = [attempts EXCEPT ![i] = 0]
    /\ fetchError' = [fetchError EXCEPT ![i] = "none"]
    /\ cands' = [cands EXCEPT ![i] = <<>>]
    /\ new_count' = [new_count EXCEPT ![i] = 0]
    /\ ret' = [ret EXCEPT ![i] = "none"]

\* the poll of cur returns (or raises) to its caller
Return(i, how) ==
    /\ pc' = [pc EXCEPT ![i] = "return"]
    /\ ret' = [ret EXCEPT ![i] = how]

\* scrape_all_sources: a new session, the results dict, the first source
scrape_all_sources(i, startable) ==
    /\ pc[i] \in startable
    /\ started < MaxInvocations
    /\ started' = started + 1
    /\ mode' = [mode EXCEPT ![i] = "all"]
    /\ sessionError' = [sessionError EXCEPT ![i] = "none"]
    /\ results' = [results EXCEPT ![i] = EmptyResults]
    /\ EnterSource(i, Head(Roster), Tail(Roster))
    /\ UNCHANGED <<serviceVars, now, sources, articles, checks>>

\* scrape_source_by_identifier for a configured, active source
scrape_source_by_identifier(i, s, startable) ==
    /\ pc[i] \in startable
    /\ started < MaxInvocations
    /\ started' = started + 1
    /\ mode' = [mode EXCEPT ![i] = "one"]
    /\ sessionError' = [sessionError EXCEPT ![i] = "none"]
    /\ results' = [results EXCEPT ![i] = EmptyResults]
    /\ EnterSource(i, s, <<>>)
    /\ UNCHANGED <<serviceVars, now, sources, articles, checks>>

\* _get_or_create_source: select(Source).where(identifier == ...)
SelectSource(i) ==
    /\ pc[i] = "select_source"
    /\ IF sessionError[i] # "none"
       THEN /\ Return(i, "raised")
            /\ UNCHANGED found
       ELSE /\ pc' = [pc EXCEPT ![i] = "commit_source"]
            /\ found' = [found EXCEPT ![i] = sources[cur[i]].exists]
            /\ UNCHANGED ret
    /\ UNCHANGED <<serviceVars, now, started, sources, articles, checks, mode, queue, cur, loaded,
                   sessionError, attempts, fetchError, cands, new_count, results>>

\* _get_or_create_source: db.add(source) when not found, db.commit(),
\* db.refresh(source); then the due check of _scrape_rss_source / _scrape_web_source
CommitSource(i) ==
    LET row == IF found[i] THEN sources[cur[i]] ELSE NewSource
    IN  /\ pc[i] = "commit_source"
        /\ IF ~found[i] /\ sources[cur[i]].exists
           THEN \* unique identifier: another session inserted the row meanwhile
                /\ sessionError' = [sessionError EXCEPT ![i] = "identifier"]
                /\ Return(i, "raised")
                /\ UNCHANGED <<sources, loaded>>
           ELSE /\ sources' = [sources EXCEPT ![cur[i]] = row]
                /\ loaded' = [loaded EXCEPT ![i] = row]
                /\ IF _should_scrape(row, check_frequency(cur[i]), now)
                   THEN /\ pc' = [pc EXCEPT ![i] = "fetch"]
                        /\ UNCHANGED ret
                   ELSE Return(i, "skipped")
                /\ UNCHANGED sessionError
        /\ UNCHANGED <<serviceVars, now, started, articles, checks, mode, queue, cur, found,
                       attempts, fetchError, cands, new_count, results>>

\* the failure branch of a poll: errors entry, failed SourceCheck, counters, commit
RecordFailure(i) ==
    LET s == cur[i]
        new == FailedHealth(loaded[i], now)
    IN  /\ results' = [results EXCEPT ![i].errors = Append(@, s)]
        /\ checks' = [checks EXCEPT ![s] = Append(@, [success |-> FALSE, check_time |-> now])]
        /\ sources' = [sources EXCEPT ![s] = CommitCheck(@, loaded[i], new)]
        /\ loaded' = [loaded EXCEPT ![i] = new]
        /\ Return(i, "failed")

\* the success branch up to the loop over the articles
StartArticles(i, arts) ==
    /\ results' = [results EXCEPT ![i].total_articles_found = @ + Len(arts)]
    /\ cands' = [cands EXCEPT ![i] = arts]
    /\ pc' = [pc EXCEPT ![i] = "select_article"]
    /\ UNCHANGED <<sources, checks, loaded, ret>>

\* rss_parser.parse_feed_async and the branch on feed_result["success"]
ParseFeed(i, outcome, arts) ==
    /\ pc[i] = "fetch"
    /\ cur[i] \in RssSources
    /\ attempts' = [attempts EXCEPT ![i] = @ + 1]
    /\ fetchError' = [fetchError EXCEPT ![i] = IF outcome = "ok" THEN "none" ELSE outcome]
    /\ IF outcome = "ok"
       THEN StartArticles(i, arts)
       ELSE /\ arts = <<>>
            /\ RecordFailure(i)
            /\ UNCHANGED cands
    /\ UNCHANGED <<serviceVars, now, started, articles, mode, queue, cur, found, sessionError, new_count>>

\* web_scraper.scrape_page under its retry decorator, and the branch on
\* scrape_result["success"]
ScrapePage(i, outcome, arts) ==
    /\ pc[i] = "fetch"
    /\ cur[i] \in WebSources
    /\ attempts' = [attempts EXCEPT ![i] = @ + 1]
    /\ fetchError' = [fetchError EXCEPT ![i] = IF outcome = "ok" THEN "none" ELSE outcome]
    /\ IF outcome = "ok"
       THEN StartArticles(i, arts)
       ELSE /\ arts = <<>>
            /\ IF retry_again(scrape_page_raises(outcome), attempts[i] + 1)
               THEN UNCHANGED <<pc, ret, results, checks, sources, loaded, cands>>
               ELSE /\ RecordFailure(i)
                    /\ UNCHANGED cands
    /\ UNCHANGED <<serviceVars, now, started, articles, mode, queue, cur, found, sessionError, new_count>>

\* _save_article: select(Article).where(content_hash == ...), inside the
\* try/except of the caller's loop
SelectArticle(i) ==
    /\ pc[i] = "select_article"
    /\ cands[i] # <<>>
    /\ IF sessionError[i] # "none"
       THEN \* the statement raises; the caller logs it and goes on
            /\ cands' = [cands EXCEPT ![i] = Tail(@)]
            /\ UNCHANGED <<pc, results>>
       ELSE IF HashExists(articles, Head(cands[i]).content_hash)
       THEN /\ results' = [results EXCEPT ![i].duplicate_articles_skipped = @ + 1]
            /\ cands' = [cands EXCEPT ![i] = Tail(@)]
            /\ UNCHANGED pc
       ELSE /\ pc' = [pc EXCEPT ![i] = "commit_article"]
            /\ UNCHANGED <<cands, results>>
    /\ UNCHANGED <<serviceVars, now, started, sources, articles, checks, mode, queue, cur, found,
                   loaded, sessionError, attempts, fetchError, new_count, ret>>

\* An INSERT that replaces the row holding the same canonical_url.
OverwrittenByUrl(arts, a) ==
    [k \in 1..Len(arts) |-> IF arts[k].canonical_url = a.canonical_url THEN a ELSE arts[k]]

\* the articles table after an INSERT that raised IntegrityError
RejectedInsert(arts, a) == arts

\* _save_article: db.add(article); db.commit()
CommitArticle(i) ==
    LET a == [source_id |-> cur[i],
              canonical_url |-> Head(cands[i]).url,
              content_hash |-> Head(cands[i]).content_hash]
        violation == UniqueViolation(articles, a)
    IN  /\ pc[i] = "commit_article"
        /\ pc' = [pc EXCEPT ![i] = "select_article"]
        /\ cands' = [cands EXCEPT ![i] = Tail(@)]
        /\ IF violation # "none"
           THEN \* IntegrityError: the flush rolls the transaction back
                /\ sessionError' = [sessionError EXCEPT ![i] = violation]
                /\ articles' = RejectedInsert(articles, a)
                /\ UNCHANGED <<results, new_count>>
           ELSE /\ articles' = Append(articles, a)
                /\ results' = [results EXCEPT ![i].new_articles_saved = @ + 1]
                /\ new_count' = [new_count EXCEPT ![i] = @ + 1]
                /\ UNCHANGED sessionError
        /\ UNCHANGED <<serviceVars, now, started, sources, checks, mode, queue, cur, found, loaded,
                       attempts, fetchError, ret>>

\* after the loop: the Source update, the successful SourceCheck, db.commit()
FinishPoll(i) ==
    LET s == cur[i]
        new == SucceededHealth(loaded[i], now, new_count[i])
    IN  /\ pc[i] = "select_article"
        /\ cands[i] = <<>>
        /\ IF sessionError[i] # "none"
           THEN \* reading the expired Source raises
                /\ Return(i, "raised")
                /\ UNCHANGED <<sources, checks, loaded>>
           ELSE /\ checks' = [checks EXCEPT ![s] = Append(@, [success |-> TRUE, check_time |-> now])]
                /\ sources' = [sources EXCEPT ![s] = CommitCheck(@, loaded[i], new)]
                /\ loaded' = [loaded EXCEPT ![i] = new]
                /\ Return(i, "ok")
        /\ UNCHANGED <<serviceVars, now, started, articles, mode, queue, cur, found, sessionError,
                       attempts, fetchError, cands, new_count, results>>

\* scrape_all_sources: the except clause of the loop and the next source
NextSource(i) ==
    /\ pc[i] = "return"
    /\ mode[i] = "all"
    /\ results' = [results EXCEPT ![i].errors = IF ret[i] = "raised" THEN Append(@, cur[i]) ELSE @]
    /\ IF queue[i] # <<>>
       THEN EnterSource(i, Head(queue[i]), Tail(queue[i]))
       ELSE /\ pc' = [pc EXCEPT ![i] = "done"]
            /\ InvVarsIdle(i)
    /\ UNCHANGED <<serviceVars, now, started, sources, articles, checks, mode, sessionError>>

\* scrape_source_by_identifier: results["success"] and the return
ReturnOne(i) ==
    /\ pc[i] = "return"
    /\ mode[i] = "one"
    /\ results' = [results EXCEPT ![i].success = IF ret[i] = "raised" THEN "false" ELSE "true"]
    /\ pc' = [pc EXCEPT ![i] = "done"]
    /\ InvVarsIdle(i)
    /\ UNCHANGED <<serviceVars, now, started, sources, articles, checks, mode, sessionError>>

\* one transaction for the whole poll: its n Articles go with the session
CommittedArticlesPerPoll(arts, n) == SubSeq(arts, 1, Len(arts) - n)

\* _save_article commits each Article on its own, so the n Articles of the
\* poll in progress are in the database when the session is closed
CommittedArticles(arts, n) == arts

\* The invocation is cancelled at an await (task cancelled, Lambda timed out):
\* the session is closed and what it had not committed is gone.
Abort(i) ==
    /\ pc[i] \notin {"idle", "done", "aborted"}
    /\ pc' = [pc EXCEPT ![i] = "aborted"]
    /\ results' = [results EXCEPT ![i] = EmptyResults]
    /\ articles' = CommittedArticles(articles, new_count[i])
    /\ InvVarsIdle(i)
    /\ UNCHANGED <<serviceVars, now, started, sources, checks, mode, sessionError>>

Tick ==
    /\ now < MaxClock
    /\ now' = now + 1
    /\ UNCHANGED <<serviceVars, started, sources, articles, checks, pc, mode, queue, cur, found,
                   loaded, sessionError, attempts, fetchError, cands, new_count, ret,
                   results>>

(***************************************************************************)
(* Inputs and constants of the classifier.                                 *)
(***************************************************************************)
Threads == {1, 2}

DefaultThreshold == 500
ConfidenceFloor == 500
ConfidenceCap == 950
DefaultConfidence == 800
MaxScore == 999

\* what the estimator makes of a text ("error": it raises on it)
Predictions == {"huntable", "not_huntable", "error"}
ScoreSamples == {250, 750}
Texts == [ml : Predictions, hunt_score : ScoreSamples]
Batches == SeqsUpTo(Texts, MaxBatch)

\* the inputs of the calls that share the instance between threads
TextsThreads == { x \in Texts : x.hunt_score = 750 }
BatchesThreads == SeqsUpTo(TextsThreads, MaxBatchThreads)

\* how the download and the unpickling of the artifacts end
LoadOutcomes == {"ok", "no_bucket", "client_error", "connection_error", "unpickle_error"}
LoadFailures == LoadOutcomes \ {"ok"}

Min(a, b) == IF a <= b THEN a ELSE b
Abs(x) == IF x < 0 THEN -x ELSE x

NoClassification == [prediction |-> "none", confidence |-> 0]

IdleFrame ==
    [pc |-> "idle", kind |-> "none", phase |-> "none", inputs |-> <<>>, todo |-> <<>>,
     results |-> <<>>, loaded |-> FALSE, load_outcome |-> "none", ret |-> "none"]

\* the categories of WINDOWS_MALWARE_KEYWORDS
Categories == {"perfect", "good", "lolbas", "intelligence", "negative"}

NoMatches == [c \in Categories |-> <<>>]
ZeroCounts == [c \in Categories |-> 0]
NoScore == [c \in Categories \cup {"threat_hunting_score"} |-> 0]

\* ContentChunker(): the defaults, in words
DefaultChunker ==
    [min_chunk_words |-> 150, target_chunk_words |-> 300, max_chunk_words |-> 500,
     overlap_sentences |-> 1]

InitScraper ==
    /\ now = 1
    /\ started = 0
    /\ sources = [s \in Sources |-> NoSource]
    /\ articles = <<>>
    /\ checks = [s \in Sources |-> <<>>]
    /\ pc = [i \in AllInvs |-> "idle"]
    /\ mode = [i \in AllInvs |-> "all"]
    /\ queue = [i \in AllInvs |-> <<>>]
    /\ cur = [i \in AllInvs |-> 0]
    /\ found = [i \in AllInvs |-> FALSE]
    /\ loaded = [i \in AllInvs |-> NoSource]
    /\ sessionError = [i \in AllInvs |-> "none"]
    /\ attempts = [i \in AllInvs |-> 0]
    /\ fetchError = [i \in AllInvs |-> "none"]
    /\ cands = [i \in AllInvs |-> <<>>]
    /\ new_count = [i \in AllInvs |-> 0]
    /\ ret = [i \in AllInvs |-> "none"]
    /\ results = [i \in AllInvs |-> EmptyResults]

\* feedparser.parse of a feed without entries
NoFeed == [status |-> "ok", entries |-> <<>>]

\* the requests that can be in activate_model at one time
Requests == {1, 2}

\* ml_model_versions: MaxVersions versions of one model and one of another
Versions == 1..(MaxVersions + 1)

\* the services as the orchestrator leaves them
ParkedClassifier ==
    /\ use_fallback = TRUE
    /\ _load_attempted = FALSE
    /\ _model_loaded = FALSE
    /\ load_count = 0
    /\ calls = 0
    /\ th = [t \in Threads |-> IdleFrame]

ParkedFallback ==
    /\ hunt_score_threshold = DefaultThreshold
    /\ hunt_score = 0
    /\ fallback_result = NoClassification

ParkedScorer ==
    /\ full_text = {}
    /\ found_matches = NoMatches
    /\ match_counts = ZeroCounts
    /\ score_result = NoScore
    /\ scorer_pc = "idle"

ParkedChunker ==
    /\ chunker = DefaultChunker
    /\ title = 0
    /\ content = <<>>
    /\ todo = <<>>
    /\ current_text = <<>>
    /\ chunks = <<>>
    /\ chunker_pc = "idle"

ParkedAnnotation ==
    /\ annotation_content = <<>>
    /\ window_size = 0
    /\ step_size = 0
    /\ position = 0
    /\ annotation_chunks = <<>>
    /\ annotation_pc = "idle"

ParkedFeed == feed = NoFeed

ParkedPage ==
    /\ soup = <<>>
    /\ selector_config = FALSE
    /\ page_articles = <<>>
    /\ page_pc = "idle"

ParkedActivation ==
    /\ is_active = [v \in Versions |-> FALSE]
    /\ activations = 0
    /\ request_pc = [r \in Requests |-> "idle"]
    /\ model_id = [r \in Requests |-> 0]
    /\ model = [r \in Requests |-> FALSE]
    /\ remaining = [r \in Requests |-> {}]
    /\ deactivated = [r \in Requests |-> {}]

Init == InitScraper /\ ParkedClassifier /\ ParkedFallback /\ ParkedScorer /\ ParkedChunker /\ ParkedAnnotation /\ ParkedFeed /\ ParkedPage /\ ParkedActivation

\* the articles list that goes with an outcome: empty unless the fetch succeeded
ArticlesOn(outcome, feeds) == IF outcome = "ok" THEN feeds ELSE { <<>> }

Step(i, feeds, startable) ==
    \/ scrape_all_sources(i, startable)
    \/ \E s \in Sources : scrape_source_by_identifier(i, s, startable)
    \/ SelectSource(i)
    \/ CommitSource(i)
    \/ \E o \in FetchOutcomes : \E arts \in ArticlesOn(o, feeds) : ParseFeed(i, o, arts)
    \/ \E o \in FetchOutcomes : \E arts \in ArticlesOn(o, feeds) : ScrapePage(i, o, arts)
    \/ SelectArticle(i)
    \/ CommitArticle(i)
    \/ FinishPoll(i)
    \/ NextSource(i)
    \/ ReturnOne(i)
    \/ Abort(i)

\* invocations one after the other
Next == Step(1, FetchResults, {"idle", "done", "aborted"}) \/ Tick

Spec == Init /\ [][Next]_vars

\* two invocations at one instant, each with its own session
NextConcurrent == \E i \in AllInvs : Step(i, FetchResultsConcurrent, {"idle"})

SpecConcurrent == Init /\ [][NextConcurrent]_vars

(***************************************************************************)
(* ContentClassifier (services/ml_classifier.py): the lazily loaded model, *)
(* classify and classify_batch.  Scores and thresholds are in tenths of a  *)
(* point, confidences in thousandths.                                      *)
(***************************************************************************)
\* the comparison with the threshold is strict and the confidence is not capped
FallbackStrictUncapped(score, threshold) ==
    IF score > threshold
    THEN [prediction |-> "huntable",
          confidence |-> ConfidenceFloor + (score - threshold)]
    ELSE [prediction |-> "not_huntable",
          confidence |-> ConfidenceFloor + (threshold - score)]

\* _fallback_classify: the label and the confidence from the hunt score
_fallback_classify(score, threshold) ==
    IF score >= threshold
    THEN [prediction |-> "huntable",
          confidence |-> Min(ConfidenceCap, ConfidenceFloor + (score - threshold))]
    ELSE [prediction |-> "not_huntable",
          confidence |-> Min(ConfidenceCap, ConfidenceFloor + (threshold - score))]

\* _ml_classify / the bulk loop: the result built from the estimator's output
ModelResult(text) ==
    [prediction |-> text.ml, confidence |-> DefaultConfidence,
     model_version |-> "model", of |-> text]

FallbackResult(text) ==
    LET c == _fallback_classify(text.hunt_score, hunt_score_threshold)
    IN  [prediction |-> c.prediction, confidence |-> c.confidence,
         model_version |-> "hunt_scorer_fallback", of |-> text]

\* classify without a model and without the fallback
UnknownResult(text) ==
    [prediction |-> "unknown", confidence |-> 0, model_version |-> "none", of |-> text]

\* every call of _load_model starts a load
NeedsLoadAlways(attempted) == TRUE

\* _load_model: if self._load_attempted: return self._model_loaded
NeedsLoad(attempted) == ~attempted

\* the exception leaves classify / classify_batch
Raise(t) == th' = [th EXCEPT ![t].pc = "idle", ![t].ret = "raised"]

classify(t, text) ==
    /\ th[t].pc = "idle"
    /\ calls < MaxCalls
    /\ calls' = calls + 1
    /\ th' = [th EXCEPT ![t] = [IdleFrame EXCEPT !.pc = "load_check", !.kind = "classify",
                                                 !.phase = "item", !.inputs = <<text>>,
                                                 !.todo = <<text>>]]
    /\ UNCHANGED <<outsideClassifier, use_fallback, _load_attempted,
                   _model_loaded, load_count>>

classify_batch(t, texts) ==
    /\ th[t].pc = "idle"
    /\ calls < MaxCalls
    /\ calls' = calls + 1
    /\ th' = [th EXCEPT ![t] = [IdleFrame EXCEPT !.pc = "load_check", !.kind = "batch",
                                                 !.phase = "bulk", !.inputs = texts,
                                                 !.todo = texts]]
    /\ UNCHANGED <<outsideClassifier, use_fallback, _load_attempted,
                   _model_loaded, load_count>>

\* _load_model: the test of self._load_attempted
LoadAttempted(t) ==
    /\ th[t].pc = "load_check"
    /\ IF NeedsLoad(_load_attempted)
       THEN th' = [th EXCEPT ![t].pc = "load_set"]
       ELSE th' = [th EXCEPT ![t].pc = "branch", ![t].loaded = _model_loaded]
    /\ UNCHANGED <<outsideClassifier, use_fallback, _load_attempted,
                   _model_loaded, load_count, calls>>

\* _load_model: self._load_attempted = True
MarkAttempted(t) ==
    /\ th[t].pc = "load_set"
    /\ _load_attempted' = TRUE
    /\ load_count' = load_count + 1
    /\ th' = [th EXCEPT ![t].pc = "loading"]
    /\ UNCHANGED <<outsideClassifier, use_fallback, _model_loaded, calls>>

\* _load_model: the cache, the downloads, pickle.load.  _download_from_s3
\* catches ClientError only: an error of the connection leaves the call.
LoadArtifacts(t, outcome) ==
    /\ th[t].pc = "loading"
    /\ _model_loaded' = (_model_loaded \/ outcome = "ok")
    /\ IF outcome = "connection_error"
       THEN th' = [th EXCEPT ![t].pc = "idle", ![t].ret = "raised",
                             ![t].load_outcome = outcome]
       ELSE th' = [th EXCEPT ![t].pc = "branch", ![t].loaded = (outcome = "ok"),
                             ![t].load_outcome = outcome]
    /\ UNCHANGED <<outsideClassifier, use_fallback, _load_attempted,
                   load_count, calls>>

HasError(texts) == \E k \in 1..Len(texts) : texts[k].ml = "error"
FirstError(texts) ==
    CHOOSE j \in 1..Len(texts) :
        texts[j].ml = "error" /\ \A m \in 1..(j - 1) : texts[m].ml # "error"

\* results the bulk path has appended when it raises: none when transform or
\* predict raises, those before the offending row when the loop raises
RaisePoints(texts) == {0, FirstError(texts) - 1}

\* a call returns its results
Returned(t, rs) ==
    th' = [th EXCEPT ![t].pc = "idle", ![t].ret = "returned", ![t].results = rs,
                     ![t].todo = <<>>]

\* classify_batch after _load_model: the bulk path, or straight to the loop
\* over classify when there is no model
BulkClassify(t) ==
    LET f == th[t] IN
    /\ f.pc = "branch"
    /\ f.phase = "bulk"
    /\ IF ~f.loaded
       THEN th' = [th EXCEPT ![t].pc = IF f.inputs = <<>> THEN "idle" ELSE "load_check",
                             ![t].ret = IF f.inputs = <<>> THEN "returned" ELSE "none",
                             ![t].phase = "item"]
       ELSE IF ~HasError(f.inputs)
       THEN Returned(t, [k \in 1..Len(f.inputs) |-> ModelResult(f.inputs[k])])
       ELSE \E n \in RaisePoints(f.inputs) :
                th' = [th EXCEPT ![t].pc = "load_check", ![t].phase = "item",
                                 ![t].results = [k \in 1..n |-> ModelResult(f.inputs[k])]]
    /\ UNCHANGED <<outsideClassifier, use_fallback, _load_attempted,
                   _model_loaded, load_count, calls>>

\* classify after _load_model, for the text at the head of todo: the model,
\* the fallback or the "unknown" result; in classify_batch the result is
\* appended and the loop goes on
ClassifyText(t) ==
    LET f == th[t]
        text == Head(f.todo)
        raises == f.loaded /\ text.ml = "error" /\ ~use_fallback
        r == IF f.loaded /\ text.ml # "error" THEN ModelResult(text)
             ELSE IF use_fallback THEN FallbackResult(text)
             ELSE UnknownResult(text)
    IN  /\ f.pc = "branch"
        /\ f.phase = "item"
        /\ IF raises
           THEN Raise(t)
           ELSE IF Len(f.todo) = 1
           THEN Returned(t, Append(f.results, r))
           ELSE th' = [th EXCEPT ![t].pc = "load_check", ![t].todo = Tail(f.todo),
                                 ![t].results = Append(f.results, r)]
        /\ UNCHANGED <<outsideClassifier, use_fallback, _load_attempted,
                       _model_loaded, load_count, calls>>

InitClassifier ==
    /\ InitScraper
    /\ ParkedActivation
    /\ ParkedPage
    /\ ParkedFeed
    /\ ParkedAnnotation
    /\ ParkedFallback
    /\ ParkedScorer
    /\ ParkedChunker
    /\ use_fallback \in BOOLEAN
    /\ _load_attempted = FALSE
    /\ _model_loaded = FALSE
    /\ load_count = 0
    /\ calls = 0
    /\ th = [t \in Threads |-> IdleFrame]

StepClassifier(t, single, batches) ==
    \/ \E text \in single : classify(t, text)
    \/ \E texts \in batches : classify_batch(t, texts)
    \/ LoadAttempted(t)
    \/ MarkAttempted(t)
    \/ \E outcome \in LoadOutcomes : LoadArtifacts(t, outcome)
    \/ BulkClassify(t)
    \/ ClassifyText(t)

\* one caller at a time
NextClassifier == StepClassifier(1, Texts, Batches)

SpecClassifier == InitClassifier /\ [][NextClassifier]_vars

\* several threads share the instance
NextClassifierThreads == \E t \in Threads : StepClassifier(t, TextsThreads, BatchesThreads)

SpecClassifierThreads == InitClassifier /\ [][NextClassifierThreads]_vars

(***************************************************************************)
(* _fallback_classify over every score HuntScorer can return.              *)
(***************************************************************************)
\* thresholds a quarter of the default apart
Thresholds == { (k * DefaultThreshold) \div 4 : k \in 0..MaxThresholdSteps }

InitFallback ==
    /\ InitScraper
    /\ ParkedActivation
    /\ ParkedPage
    /\ ParkedFeed
    /\ ParkedAnnotation
    /\ ParkedClassifier
    /\ ParkedScorer
    /\ ParkedChunker
    /\ hunt_score_threshold \in Thresholds
    /\ hunt_score \in 0..MaxScore
    /\ fallback_result = NoClassification

FallbackClassify ==
    /\ fallback_result = NoClassification
    /\ fallback_result' = _fallback_classify(hunt_score, hunt_score_threshold)
    /\ UNCHANGED <<outsideFallback, hunt_score_threshold, hunt_score>>

NextFallback == FallbackClassify

SpecFallback == InitFallback /\ [][NextFallback]_vars

(***************************************************************************)
(* HuntScorer.score_article (services/hunt_scorer.py).  Category scores    *)
(* are exact fractions over Scale, threat_hunting_score is in tenths.      *)
(***************************************************************************)
PerfectMax == 75
GoodMax == 5
LolbasMax == 10
IntelligenceMax == 10
NegativeMax == 10

Scale == 2 ^ MaxMatches

\* an excerpt of WINDOWS_MALWARE_KEYWORDS, entries in the order of the table
KeywordTable ==
    [perfect |-> <<"rundll32.exe", "msiexec.exe", "New-Object", "reg.exe", "msiexec.exe",
                   "New-Object">>,
     good |-> <<"temp">>,
     lolbas |-> <<"certutil.exe", "rundll32.exe", "finger.exe", "finger.exe", "reg.exe">>,
     intelligence |-> <<"APT">>,
     negative |-> <<"tutorial">>]

Keywords == UNION { { KeywordTable[c][k] : k \in 1..Len(KeywordTable[c]) } : c \in Categories }

category_max(c) ==
    CASE c = "perfect" -> PerfectMax
      [] c = "good" -> GoodMax
      [] c = "lolbas" -> LolbasMax
      [] c = "intelligence" -> IntelligenceMax
      [] c = "negative" -> NegativeMax

\* re.search of the keyword's pattern in the text
_keyword_matches(keyword, text) == keyword \in text

\* the loops over the table: every entry that matches is appended
MatchList(table, text) ==
    LET Matches(k) == _keyword_matches(k, text) IN SelectSeq(table, Matches)

\* max_points * (1.0 - 0.5 ** matches), over Scale
geometric_score(matches, max_points) ==
    IF matches = 0 THEN 0 ELSE max_points * (Scale - (Scale \div (2 ^ matches)))

\* the sum is used as it is
ClampNone(x) == x

\* max(0.0, min(99.9, ...)), on tenths over Scale
ClampScore(x) ==
    IF x < 0 THEN 0 ELSE IF x > MaxScore * Scale THEN MaxScore * Scale ELSE x

\* round(..., 1): to the nearest tenth, an exact tie to the even one
RoundTenths(x) ==
    LET q == x \div Scale
        r == x % Scale
    IN  IF 2 * r > Scale THEN q + 1
        ELSE IF 2 * r = Scale THEN q + (q % 2)
        ELSE q

\* the category scores and the final score from the lengths of the match lists
ScoreFromCounts(n) ==
    LET s == [c \in Categories |-> geometric_score(n[c], category_max(c))]
        total == s["perfect"] + s["good"] + s["lolbas"] + s["intelligence"] - s["negative"]
    IN  [c \in Categories \cup {"threat_hunting_score"} |->
            IF c = "threat_hunting_score" THEN RoundTenths(ClampScore(10 * total)) ELSE s[c]]

\* score_article: the five loops over the keyword table
MatchKeywords ==
    /\ scorer_pc = "match"
    /\ found_matches' = [c \in Categories |-> MatchList(KeywordTable[c], full_text)]
    /\ match_counts' = [c \in Categories |-> Len(MatchList(KeywordTable[c], full_text))]
    /\ scorer_pc' = "score"
    /\ UNCHANGED <<outsideScorer, full_text, score_result>>

\* score_article: the geometric scores, the clamp and the rounding
ScoreMatches ==
    /\ scorer_pc = "score"
    /\ score_result' = ScoreFromCounts(match_counts)
    /\ scorer_pc' = "done"
    /\ UNCHANGED <<outsideScorer, full_text, found_matches, match_counts>>

\* every combination of match counts
InitScorer ==
    /\ InitScraper
    /\ ParkedActivation
    /\ ParkedPage
    /\ ParkedFeed
    /\ ParkedAnnotation
    /\ ParkedClassifier
    /\ ParkedFallback
    /\ ParkedChunker
    /\ full_text = {}
    /\ found_matches = NoMatches
    /\ match_counts \in { n \in [Categories -> 0..MaxMatches] :
                            n["negative"] <= MaxNegativeMatches }
    /\ score_result = NoScore
    /\ scorer_pc = "score"

NextScorer == ScoreMatches

SpecScorer == InitScorer /\ [][NextScorer]_vars

\* every text over the keywords of the excerpt
InitKeywords ==
    /\ InitScraper
    /\ ParkedActivation
    /\ ParkedPage
    /\ ParkedFeed
    /\ ParkedAnnotation
    /\ ParkedClassifier
    /\ ParkedFallback
    /\ ParkedChunker
    /\ full_text \in SUBSET Keywords
    /\ found_matches = NoMatches
    /\ match_counts = ZeroCounts
    /\ score_result = NoScore
    /\ scorer_pc = "match"

NextKeywords == MatchKeywords \/ ScoreMatches

SpecKeywords == InitKeywords /\ [][NextKeywords]_vars

(***************************************************************************)
(* ContentChunker.chunk_article (services/content_chunker.py).  A text is  *)
(* the sequence of its sentences, each with the paragraph it comes from    *)
(* and its number of words; the title is a piece of paragraph 0 that ends  *)
(* without punctuation.                                                    *)
(***************************************************************************)
SentenceWords == 1..MaxSentenceWords

\* the sentences of paragraph p, of ws[1], ws[2], ... words
Paragraph(p, ws) == [k \in 1..Len(ws) |-> [para |-> p, sent |-> k, words |-> ws[k]]]

\* a paragraph has one sentence or two
ParagraphShapes == UNION { [1..n -> SentenceWords] : n \in {1, 2} }

Contents ==
    UNION { { [p \in 1..n |-> Paragraph(p, f[p])] : f \in [1..n -> ParagraphShapes] } :
            n \in 0..MaxParagraphs }

\* no title, or a title of one word
Titles == {0, 1}

ChunkerConfigs ==
    { c \in [min_chunk_words : 1..MaxChunkWords, target_chunk_words : 1..MaxChunkWords,
             max_chunk_words : 1..MaxChunkWords, overlap_sentences : {0, 1}] :
        /\ c.min_chunk_words <= c.target_chunk_words
        /\ c.target_chunk_words <= c.max_chunk_words }

TitlePiece(w) == [para |-> 0, sent |-> 0, words |-> w]

RECURSIVE _count_words(_)
_count_words(text) ==
    IF text = <<>> THEN 0 ELSE Head(text).words + _count_words(Tail(text))

\* len(_split_sentences(text)): the title runs into the sentence after it
NumSentences(text) ==
    IF text # <<>> /\ Head(text).para = 0 /\ Len(text) > 1 THEN Len(text) - 1 ELSE Len(text)

_get_overlap_text(text, overlap_sentences) ==
    IF overlap_sentences <= 0 THEN <<>>
    ELSE IF NumSentences(text) <= overlap_sentences THEN <<>>
    ELSE SubSeq(text, Len(text) - overlap_sentences + 1, Len(text))

_create_chunk(index, text) ==
    [index |-> index, text |-> text, word_count |-> _count_words(text)]

\* chunk_article up to the loop of _build_chunks
chunk_article ==
    /\ chunker_pc = "idle"
    /\ chunks' = <<>>
    /\ IF content = <<>>
       THEN /\ chunker_pc' = "done"
            /\ UNCHANGED <<todo, current_text>>
       ELSE /\ chunker_pc' = "loop"
            /\ todo' = content
            /\ current_text' = IF title > 0 THEN <<TitlePiece(title)>> ELSE <<>>
    /\ UNCHANGED <<outsideChunker, chunker, title, content>>

\* the chunk that follows a closed one starts from the overlap alone
NewChunkTextOverlapOnly(overlap_text, paragraph) == overlap_text

\* current_text = overlap_text + paragraph + "\n\n"
NewChunkText(overlap_text, paragraph) == overlap_text \o paragraph

\* _build_chunks: one turn of the loop over the paragraphs
BuildChunks ==
    LET paragraph == Head(todo)
        closes == /\ _count_words(current_text) + _count_words(paragraph)
                        > chunker.max_chunk_words
                  /\ current_text # <<>>
        chunks1 == IF closes
                   THEN Append(chunks, _create_chunk(Len(chunks), current_text))
                   ELSE chunks
        text1 == IF closes
                 THEN NewChunkText(_get_overlap_text(current_text, chunker.overlap_sentences),
                                   paragraph)
                 ELSE current_text \o paragraph
        saves == /\ _count_words(text1) >= chunker.target_chunk_words
                 /\ _count_words(text1) >= chunker.min_chunk_words
    IN  /\ chunker_pc = "loop"
        /\ chunks' = IF saves
                     THEN Append(chunks1, _create_chunk(Len(chunks1), text1))
                     ELSE chunks1
        /\ current_text' = IF saves
                           THEN _get_overlap_text(text1, chunker.overlap_sentences)
                           ELSE text1
        /\ todo' = Tail(todo)
        /\ chunker_pc' = IF Tail(todo) = <<>> THEN "final" ELSE "loop"
        /\ UNCHANGED <<outsideChunker, chunker, title, content>>

\* _build_chunks: the final chunk, if there is remaining content
FinalChunk ==
    /\ chunker_pc = "final"
    /\ chunks' = IF current_text # <<>>
                 THEN Append(chunks, _create_chunk(Len(chunks), current_text))
                 ELSE chunks
    /\ chunker_pc' = "done"
    /\ UNCHANGED <<outsideChunker, chunker, title, content, todo, current_text>>

InitChunker ==
    /\ InitScraper
    /\ ParkedActivation
    /\ ParkedPage
    /\ ParkedFeed
    /\ ParkedAnnotation
    /\ ParkedClassifier
    /\ ParkedFallback
    /\ ParkedScorer
    /\ chunker \in ChunkerConfigs
    /\ title \in Titles
    /\ content \in Contents
    /\ todo = <<>>
    /\ current_text = <<>>
    /\ chunks = <<>>
    /\ chunker_pc = "idle"

NextChunker == chunk_article \/ BuildChunks \/ FinalChunk

SpecChunker == InitChunker /\ [][NextChunker]_vars

(***************************************************************************)
(* ContentChunker.chunk_for_annotation: a window of window_size characters *)
(* slid over the normalized content by step_size.  A character is a letter *)
(* or a space.                                                             *)
(***************************************************************************)
Chars == {"a", " "}

\* _normalize_text: no run of spaces, no leading or trailing whitespace
Normalized(s) ==
    /\ s # <<>> => s[1] # " " /\ s[Len(s)] # " "
    /\ \A k \in 1..(Len(s) - 1) : ~(s[k] = " " /\ s[k + 1] = " ")

AnnotationContents == { s \in SeqsUpTo(Chars, MaxContentChars) : Normalized(s) }
WindowSizes == 0..MaxWindowSize
StepSizes == (0 - MaxStepSize)..MaxStepSize

\* the runs the model follows: a loop that does not end is cut here
MaxAnnotationChunks == MaxContentChars + 1
MaxRewind == MaxContentChars + 1

Max(a, b) == IF a >= b THEN a ELSE b

\* a slice bound of a sequence of n items: negative bounds count from the end
SliceIndex(i, n) == IF i < 0 THEN Max(n + i, 0) ELSE Min(i, n)

\* s[start:end]
Slice(s, start, end) == SubSeq(s, SliceIndex(start, Len(s)) + 1, SliceIndex(end, Len(s)))

\* s.rfind(' ', start, end)
rfind(s, start, end) ==
    LET at == { k \in SliceIndex(start, Len(s))..(SliceIndex(end, Len(s)) - 1) : s[k + 1] = " " }
    IN  IF at = {} THEN 0 - 1 ELSE CHOOSE k \in at : \A m \in at : m <= k

\* chunk_text.strip() is not empty
HasText(s) == \E k \in 1..Len(s) : s[k] # " "

\* position += step_size
NextPosition(pos, step) == pos + step

\* chunk_for_annotation up to the loop
chunk_for_annotation ==
    /\ annotation_pc = "idle"
    /\ position' = 0
    /\ annotation_chunks' = <<>>
    /\ annotation_pc' = IF annotation_content = <<>> THEN "done" ELSE "loop"
    /\ UNCHANGED <<outsideAnnotation, annotation_content, window_size, step_size>>

\* one iteration of while position < len(content)
SlideWindow ==
    LET n == Len(annotation_content)
        window_end == Min(position + window_size, n)
        last_space == rfind(annotation_content, position, window_end)
        end_position == IF window_end < n /\ last_space > position
                        THEN last_space ELSE window_end
        chunk_text == Slice(annotation_content, position, end_position)
    IN  /\ annotation_pc = "loop"
        /\ position < n
        /\ Len(annotation_chunks) < MaxAnnotationChunks
        /\ position > 0 - MaxRewind
        /\ annotation_chunks' =
              IF HasText(chunk_text)
              THEN Append(annotation_chunks,
                          [index |-> Len(annotation_chunks), start_position |-> position,
                           end_position |-> end_position])
              ELSE annotation_chunks
        /\ position' = NextPosition(position, step_size)
        /\ UNCHANGED <<outsideAnnotation, annotation_content, window_size, step_size,
                       annotation_pc>>

\* the loop condition fails: return chunks
ReturnChunks ==
    /\ annotation_pc = "loop"
    /\ position >= Len(annotation_content)
    /\ annotation_pc' = "done"
    /\ UNCHANGED <<outsideAnnotation, annotation_content, window_size, step_size, position,
                   annotation_chunks>>

InitAnnotation ==
    /\ InitScraper
    /\ ParkedActivation
    /\ ParkedPage
    /\ ParkedFeed
    /\ ParkedClassifier
    /\ ParkedFallback
    /\ ParkedScorer
    /\ ParkedChunker
    /\ annotation_content \in AnnotationContents
    /\ window_size \in WindowSizes
    /\ step_size \in StepSizes
    /\ position = 0
    /\ annotation_chunks = <<>>
    /\ annotation_pc = "idle"

NextAnnotation == chunk_for_annotation \/ SlideWindow \/ ReturnChunks

SpecAnnotation == InitAnnotation /\ [][NextAnnotation]_vars

(***************************************************************************)
(* RSSParserService (services/rss_parser.py): parse_feed, _parse_entry and *)
(* _generate_content_hash, and one poll of the feed's source.  Strings are *)
(* sequences of characters.                                                *)
(***************************************************************************)
\* content[:500]: the length of the prefix, scaled to the contents of the model
HashPrefix == 2

\* str.lower() of one character
LowerChar(c) ==
    IF c = "A" THEN "a" ELSE IF c = "T" THEN "t" ELSE IF c = "U" THEN "u" ELSE c

\* str.lower()
lower(s) == [k \in 1..Len(s) |-> LowerChar(s[k])]

\* str.strip()
strip(s) ==
    LET inked == { k \in 1..Len(s) : s[k] # " " }
    IN  IF inked = {} THEN <<>>
        ELSE SubSeq(s, CHOOSE k \in inked : \A m \in inked : k <= m,
                       CHOOSE k \in inked : \A m \in inked : m <= k)

\* content[:500]
Truncated(s) == SubSeq(s, 1, Min(Len(s), HashPrefix))

\* the fingerprint taken over the whole content
ContentHashUntruncated(title_, url, content_) ==
    strip(lower(title_)) \o <<"|">> \o strip(lower(url)) \o <<"|">> \o strip(lower(content_))

\* _generate_content_hash: the combined string; SHA-256 is taken as injective,
\* so the digest stands for the string it was computed from
_generate_content_hash(title_, url, content_) ==
    strip(lower(title_)) \o <<"|">> \o strip(lower(url)) \o <<"|">>
        \o (IF content_ # <<>> THEN strip(lower(Truncated(content_))) ELSE <<>>)

\* the entries of a feed: title, link and content as feedparser gives them
EntryTitles == { <<>>, <<"t">>, <<"T">> }
EntryLinks == { <<"u">>, <<"U", " ">> }
EntryContents == SeqsUpTo({"a", "A"}, MaxEntryContent)
Entries == [title : EntryTitles, link : EntryLinks, content : EntryContents]

\* a feed that parses, a feed the parser flags (bozo: unreachable URL or
\* malformed document, with the entries it could read), a parse that raises
Feeds ==
    { [status |-> "ok", entries |-> <<a, b>>] : a \in Entries, b \in Entries }
    \cup { [status |-> "bozo", entries |-> q] : q \in SeqsUpTo(Entries, 1) }
    \cup { [status |-> "raises", entries |-> <<>>] }

\* _parse_entry returns None: no link, or no title
Unparsed(entry) == entry.link = <<>> \/ strip(entry.title) = <<>>

\* _parse_entry: the article_data of an entry
_parse_entry(entry) ==
    [content_hash |-> _generate_content_hash(strip(entry.title), entry.link, entry.content),
     url |-> entry.link]

RECURSIVE ParsedEntries(_)
ParsedEntries(es) ==
    IF es = <<>> THEN <<>>
    ELSE IF Unparsed(Head(es)) THEN ParsedEntries(Tail(es))
    ELSE <<_parse_entry(Head(es))>> \o ParsedEntries(Tail(es))

\* parse_feed: success is False only in the except clause; feed.bozo is logged
parse_feed(f) ==
    IF f.status = "raises"
    THEN [articles |-> <<>>, success |-> FALSE]
    ELSE [articles |-> ParsedEntries(f.entries), success |-> TRUE]

\* parse_feed_async(source_config["rss_url"]) in _scrape_rss_source
ParseThisFeed(i) ==
    ParseFeed(i, IF parse_feed(feed).success THEN "ok" ELSE "permanent", parse_feed(feed).articles)

InitFeed ==
    /\ InitScraper
    /\ ParkedActivation
    /\ ParkedPage
    /\ ParkedClassifier
    /\ ParkedFallback
    /\ ParkedScorer
    /\ ParkedChunker
    /\ ParkedAnnotation
    /\ feed \in Feeds

\* one poll of the source of the feed
NextFeed ==
    \/ scrape_source_by_identifier(1, 1, {"idle"})
    \/ SelectSource(1)
    \/ CommitSource(1)
    \/ ParseThisFeed(1)
    \/ SelectArticle(1)
    \/ CommitArticle(1)
    \/ FinishPoll(1)
    \/ ReturnOne(1)

SpecFeed == InitFeed /\ [][NextFeed]_vars

(***************************************************************************)
(* WebScraperService (services/web_scraper.py): the candidates extracted   *)
(* from a page, by the configured selectors or by the generic strategies.  *)
(***************************************************************************)
\* An element of the page: an article container or a heading outside of one;
\* whether it has a title element, the text of it after get_text(strip=True),
\* whether it has a link element, and the href of it.
PageElements ==
    [kind : {"article", "heading"}, title_elem : BOOLEAN, title : {"", "t"},
     link_elem : BOOLEAN, href : {"", "/x"}]

\* the elements a parsed page can hold: no text without the element
WellFormed(el) ==
    /\ ~el.title_elem => el.title = ""
    /\ ~el.link_elem => el.href = ""
    /\ el.kind = "heading" => el.title_elem

Pages == SeqsUpTo({ el \in PageElements : WellFormed(el) }, MaxPageElements)

\* urljoin(base_url, href)
urljoin(base_url, href) == base_url \o href

\* the article_data of an element
PageArticle(el) == [title |-> el.title, url |-> urljoin("https://site", el.href)]

\* _extract_with_selectors: a link with an href, then "if title and article_url"
SelectorKeeps(el) == el.link_elem /\ el.href # "" /\ el.title_elem /\ el.title # ""

\* _extract_from_article_tag: a title element, and a link with an href
ArticleTagKeeps(el) == el.title_elem /\ el.link_elem /\ el.href # ""

\* _extract_blog_posts: a link with an href in the heading
BlogPostKeeps(el) == el.link_elem /\ el.href # ""

\* what a strategy makes of an element: the containers of the selectors, the
\* <article> tags, the headings of the blog-post pattern
Keeps(strategy, el) ==
    IF strategy = "selectors" THEN SelectorKeeps(el)
    ELSE IF strategy = "article_tag" THEN el.kind = "article" /\ ArticleTagKeeps(el)
    ELSE el.kind = "heading" /\ BlogPostKeeps(el)

RECURSIVE Extracted(_, _)
\* the articles list of a strategy: the elements it keeps, in page order
Extracted(s, strategy) ==
    IF s = <<>> THEN <<>>
    ELSE (IF Keeps(strategy, Head(s)) THEN <<PageArticle(Head(s))>> ELSE <<>>)
         \o Extracted(Tail(s), strategy)

\* scrape_page with selector_config: every container of the page
_extract_with_selectors ==
    /\ page_pc = "idle"
    /\ selector_config
    /\ page_articles' = Extracted(soup, "selectors")
    /\ page_pc' = "done"
    /\ UNCHANGED <<outsidePage, soup, selector_config>>

\* scrape_page without selector_config: the <article> tags; the headings when
\* the tags gave nothing
_extract_generic ==
    LET from_tags == Extracted(soup, "article_tag")
    IN  /\ page_pc = "idle"
        /\ ~selector_config
        /\ page_articles' = IF from_tags = <<>>
                            THEN Extracted(soup, "blog_posts")
                            ELSE from_tags
        /\ page_pc' = "done"
        /\ UNCHANGED <<outsidePage, soup, selector_config>>

InitPage ==
    /\ InitScraper
    /\ ParkedActivation
    /\ ParkedClassifier
    /\ ParkedFallback
    /\ ParkedScorer
    /\ ParkedChunker
    /\ ParkedAnnotation
    /\ ParkedFeed
    /\ soup \in Pages
    /\ selector_config \in BOOLEAN
    /\ page_articles = <<>>
    /\ page_pc = "idle"

NextPage == _extract_with_selectors \/ _extract_generic

SpecPage == InitPage /\ [][NextPage]_vars

(***************************************************************************)
(* activate_model (api/routes/ml.py) over ml_model_versions.  Each request *)
(* has its own session and transaction (READ COMMITTED): an UPDATE locks   *)
(* the rows it writes until the transaction ends, a statement that needs a *)
(* row locked by another transaction waits, and of two transactions that   *)
(* wait for each other the database aborts one.                            *)
(***************************************************************************)
model_name(v) == IF v <= MaxVersions THEN "content_filter" ELSE "junk_classifier"

\* an activation that deactivates nothing
NoOtherVersions(id) == {}

\* the rows of the deactivate_query: same model_name, id != model_id
OtherVersions(id) == { v \in Versions : model_name(v) = model_name(id) /\ v # id }

\* the row is locked by a transaction other than that of r
LockedByOther(r, v) == \E o \in Requests \ {r} : v \in deactivated[o]

\* the rows the next statement of r writes
Wanted(r) ==
    IF request_pc[r] = "deactivate" THEN remaining[r]
    ELSE IF request_pc[r] = "commit" THEN {model_id[r]}
    ELSE {}

WaitsFor(r, o) == \E v \in Wanted(r) : v \in deactivated[o]

RequestIdle(r) ==
    /\ model_id' = [model_id EXCEPT ![r] = 0]
    /\ model' = [model EXCEPT ![r] = FALSE]
    /\ remaining' = [remaining EXCEPT ![r] = {}]
    /\ deactivated' = [deactivated EXCEPT ![r] = {}]

\* model = await session.get(MLModelVersion, model_id)
activate_model(r, id) ==
    /\ request_pc[r] \in {"idle", "activated", "failed"}
    /\ activations < MaxActivations
    /\ activations' = activations + 1
    /\ request_pc' = [request_pc EXCEPT ![r] = "deactivate"]
    /\ model_id' = [model_id EXCEPT ![r] = id]
    /\ model' = [model EXCEPT ![r] = is_active[id]]
    /\ remaining' = [remaining EXCEPT ![r] = OtherVersions(id)]
    /\ deactivated' = [deactivated EXCEPT ![r] = {}]
    /\ UNCHANGED <<outsideActivation, is_active>>

\* session.execute(deactivate_query): the UPDATE reaches one more row
Deactivate(r, v) ==
    /\ request_pc[r] = "deactivate"
    /\ v \in remaining[r]
    /\ ~LockedByOther(r, v)
    /\ remaining' = [remaining EXCEPT ![r] = @ \ {v}]
    /\ deactivated' = [deactivated EXCEPT ![r] = @ \cup {v}]
    /\ UNCHANGED <<outsideActivation, is_active, activations, request_pc, model_id, model>>

\* the UPDATE is complete: model.is_active = True; model.deployed_at = utcnow()
Assign(r) ==
    /\ request_pc[r] = "deactivate"
    /\ remaining[r] = {}
    /\ request_pc' = [request_pc EXCEPT ![r] = "commit"]
    /\ UNCHANGED <<outsideActivation, is_active, activations, model_id, model, remaining,
                   deactivated>>

\* session.commit(): the flush writes the row of the model (is_active when the
\* loaded value differs, deployed_at always), then the transaction commits
CommitActivation(r) ==
    /\ request_pc[r] = "commit"
    /\ ~LockedByOther(r, model_id[r])
    /\ is_active' = [v \in Versions |->
                        IF v \in deactivated[r] THEN FALSE
                        ELSE IF v = model_id[r] /\ ~model[r] THEN TRUE
                        ELSE is_active[v]]
    /\ request_pc' = [request_pc EXCEPT ![r] = "activated"]
    /\ RequestIdle(r)
    /\ UNCHANGED <<outsideActivation, activations>>

\* two transactions wait for each other: the database aborts this one, the
\* session rolls back and the request fails
DeadlockDetected(r) ==
    /\ \E o \in Requests \ {r} : WaitsFor(r, o) /\ WaitsFor(o, r)
    /\ request_pc' = [request_pc EXCEPT ![r] = "failed"]
    /\ RequestIdle(r)
    /\ UNCHANGED <<outsideActivation, is_active, activations>>

InitActivation ==
    /\ InitScraper
    /\ ParkedClassifier
    /\ ParkedFallback
    /\ ParkedScorer
    /\ ParkedChunker
    /\ ParkedAnnotation
    /\ ParkedFeed
    /\ ParkedPage
    /\ is_active = [v \in Versions |-> FALSE]
    /\ activations = 0
    /\ request_pc = [r \in Requests |-> "idle"]
    /\ model_id = [r \in Requests |-> 0]
    /\ model = [r \in Requests |-> FALSE]
    /\ remaining = [r \in Requests |-> {}]
    /\ deactivated = [r \in Requests |-> {}]

NextActivation ==
    \E r \in Requests :
        \/ \E id \in Versions : activate_model(r, id)
        \/ \E v \in Versions : Deactivate(r, v)
        \/ Assign(r)
        \/ CommitActivation(r)
        \/ DeadlockDetected(r)

SpecActivation == InitActivation /\ [][NextActivation]_vars

(***************************************************************************)
(* Properties.                                                             *)
(***************************************************************************)
CountHash(arts, h) == Cardinality({ k \in 1..Len(arts) : arts[k].content_hash = h })
ArticlesOf(s) == Cardinality({ k \in 1..Len(articles) : articles[k].source_id = s })
LastCheck(s) == checks[s][Len(checks[s])]

\* no persisted Article of another fingerprint holds the candidate's url
UrlFree(c) ==
    \A k \in 1..Len(articles) :
        articles[k].canonical_url = c.url => articles[k].content_hash = c.content_hash

\* invocation i has just finished offering the head of cands[i] to _save_article
Offered(i) ==
    /\ pc[i] \in {"select_article", "commit_article"}
    /\ pc'[i] = "select_article"
    /\ Len(cands'[i]) < Len(cands[i])

\* C1: dedup is idempotent.  Every offer of a candidate to the admission gate
\* (for a candidate whose url no Article of another fingerprint holds) is
\* counted as new and leaves exactly one Article of its fingerprint when no
\* Article had that fingerprint, and is counted as a duplicate skip, with the
\* store unchanged, when one had: so the same candidate offered twice, in one
\* poll or in successive polls, gives one Article, one new and one duplicate.
C1_DedupIdempotent ==
    [][\A i \in AllInvs :
        (Offered(i) /\ UrlFree(Head(cands[i]))) =>
            LET h == Head(cands[i]).content_hash
            IN  IF HashExists(articles, h)
                THEN /\ articles' = articles
                     /\ results'[i].duplicate_articles_skipped
                            = results[i].duplicate_articles_skipped + 1
                     /\ results'[i].new_articles_saved = results[i].new_articles_saved
                ELSE /\ CountHash(articles', h) = 1
                     /\ results'[i].new_articles_saved = results[i].new_articles_saved + 1
                     /\ results'[i].duplicate_articles_skipped
                            = results[i].duplicate_articles_skipped
      ]_vars

\* C2: no two persisted Articles share a content fingerprint and no two share a
\* canonical url, also when two invocations look up the same fingerprint before
\* either inserts.
C2_UniqueArticles ==
    \A j, k \in 1..Len(articles) :
        j # k => /\ articles[j].content_hash # articles[k].content_hash
                 /\ articles[j].canonical_url # articles[k].canonical_url

\* two sessions found no Article of a fingerprint; one insert took effect and
\* the other was rejected by the constraint on content_hash
C2_RaceLost ==
    \E i, j \in AllInvs :
        /\ i # j
        /\ sessionError[i] = "content_hash"
        /\ results[j].new_articles_saved >= 1
        /\ Len(articles) >= 1

\* C3: a poll whose fetch succeeded sets consecutive_failures of its source to
\* 0, a poll whose fetch failed raises it by exactly 1, and no other step
\* changes the counter of any source.
C3_FailureCounter ==
    [][\A s \in Sources :
        IF \E i \in AllInvs : /\ cur[i] = s /\ pc[i] = "select_article"
                              /\ cands[i] = <<>> /\ pc'[i] = "return"
        THEN sources'[s].consecutive_failures = 0
        ELSE IF \E i \in AllInvs : cur[i] = s /\ pc[i] = "fetch" /\ pc'[i] = "return"
        THEN sources'[s].consecutive_failures = sources[s].consecutive_failures + 1
        ELSE sources'[s].consecutive_failures = sources[s].consecutive_failures
      ]_vars

\* C4: in a pass over all sources, a source whose last_check is set and younger
\* than its check_frequency is not fetched, gets no SourceCheck and keeps its
\* row; a source without last_check goes on to the fetch.
C4_NotDueIsSkipped ==
    [][\A i \in AllInvs :
        (mode[i] = "all" /\ pc[i] = "commit_source" /\ pc'[i] \notin {"commit_source", "aborted"}) =>
            LET s == cur[i]
                row == sources[s]
            IN  /\ (row.last_check # 0 /\ now - row.last_check < check_frequency(s))
                      => /\ pc'[i] = "return" /\ ret'[i] = "skipped"
                         /\ attempts'[i] = 0
                         /\ checks' = checks
                         /\ sources' = sources
                /\ row.last_check = 0 => pc'[i] = "fetch"
      ]_vars

\* a pass has skipped a source whose last check, a failed one, is too recent
C4_SkippedAfterFailure ==
    \E i \in AllInvs :
        /\ mode[i] = "all" /\ pc[i] = "return" /\ ret[i] = "skipped"
        /\ attempts[i] = 0
        /\ sources[cur[i]].last_check # 0
        /\ sources[cur[i]].consecutive_failures > 0
        /\ ~LastCheck(cur[i]).success

\* C5: scrape_source_by_identifier does not consult the due check: the poll of
\* the named source always calls the fetcher.
C5_NamedSourceAlwaysFetched ==
    \A i \in AllInvs :
        (mode[i] = "one" /\ pc[i] = "return") => attempts[i] >= 1

\* C6: a poll of a page source whose fetch failed appends exactly one
\* SourceCheck, with success = false, and raises consecutive_failures of the
\* source by exactly 1.
C6_OneFailedCheck ==
    [][\A i \in AllInvs :
        (/\ pc[i] = "fetch" /\ cur[i] \in WebSources
         /\ pc'[i] \notin {"fetch", "aborted"} /\ fetchError'[i] # "none") =>
            LET s == cur[i]
            IN  /\ checks'[s] = Append(checks[s], [success |-> FALSE, check_time |-> now])
                /\ \A r \in Sources \ {s} : checks'[r] = checks[r]
                /\ sources'[s].consecutive_failures = sources[s].consecutive_failures + 1
      ]_vars

\* the poll of a page source has ended on a transient fetch failure (HTTP 500)
C6_PageFetchFailed ==
    \E i \in AllInvs :
        /\ pc[i] = "return" /\ ret[i] = "failed" /\ cur[i] \in WebSources
        /\ fetchError[i] = "transient"
        /\ ~LastCheck(cur[i]).success
        /\ sources[cur[i]].consecutive_failures = 1

\* C7: scrape_page returns a failure for a transient error only after the third
\* attempt has failed.
C7_ThreeAttempts ==
    \A i \in AllInvs :
        (/\ pc[i] = "return" /\ cur[i] \in WebSources
         /\ ret[i] = "failed" /\ fetchError[i] = "transient")
            => attempts[i] = StopAfterAttempt

\* C8: in a pass over all sources, whatever happened to the sources before it,
\* every source of the roster is polled: its poll either skips it as not due or
\* calls the fetcher.
C8_LaterSourcesPolled ==
    \A i \in AllInvs :
        (mode[i] = "all" /\ pc[i] = "return") => (ret[i] = "skipped" \/ attempts[i] >= 1)

\* C9: the committed state never holds a SourceCheck without the update of the
\* health counters made with it, nor the update without the SourceCheck: the
\* row of a source agrees with the newest SourceCheck of that source.
C9_CheckAndHealthTogether ==
    \A s \in Sources :
        IF checks[s] = <<>>
        THEN /\ sources[s].last_check = 0
             /\ sources[s].last_success = 0
             /\ sources[s].consecutive_failures = 0
        ELSE /\ sources[s].last_check = LastCheck(s).check_time
             /\ LastCheck(s).success
                    => /\ sources[s].last_success = LastCheck(s).check_time
                       /\ sources[s].consecutive_failures = 0
             /\ ~LastCheck(s).success
                    => /\ sources[s].consecutive_failures > 0
                       /\ sources[s].last_success < LastCheck(s).check_time

\* an invocation was aborted after a poll had committed a failed check
C9_AbortedAfterCheck ==
    \E i \in AllInvs : \E s \in Sources :
        /\ pc[i] = "aborted"
        /\ checks[s] # <<>>
        /\ ~LastCheck(s).success
        /\ sources[s].consecutive_failures >= 1

\* C10: whenever no poll of a source is in progress, total_articles of the
\* source equals the number of persisted Articles attributed to it.
C10_TotalArticlesMatches ==
    \A s \in Sources :
        (\A i \in AllInvs : cur[i] # s) => sources[s].total_articles = ArticlesOf(s)

\* C11: a source is never polled by two overlapping invocations: no two
\* invocations are at one instant between the due check and the final commit
\* of a poll of the same source.
PollInProgress(i) == pc[i] \in {"fetch", "select_article", "commit_article"}

C11_NoOverlappingPolls ==
    \A i, j \in AllInvs :
        (i # j /\ PollInProgress(i) /\ PollInProgress(j)) => cur[i] # cur[j]

C13_LoadAtMostOnce ==
    [][/\ load_count' <= 1
       /\ load_count' # load_count => ~_load_attempted
       /\ \A t \in Threads :
              Len(th'[t].results) > Len(th[t].results) =>
                  LET r == th'[t].results[Len(th'[t].results)]
                  IN  /\ (~_model_loaded /\ use_fallback)
                             => r.model_version = "hunt_scorer_fallback"
                      /\ r.model_version = "model" => _model_loaded
                      /\ (_model_loaded /\ r.of.ml # "error")
                             => r.model_version = "model"]_vars

\* a later call, which loaded nothing itself, answered from the fallback
\* after the one load of the instance had failed
C13_FallbackAfterFailedLoad ==
    /\ calls >= 2
    /\ load_count = 1
    /\ ~_model_loaded
    /\ th[1].pc = "idle"
    /\ th[1].ret = "returned"
    /\ th[1].load_outcome = "none"
    /\ Len(th[1].results) >= 1
    /\ th[1].results[1].model_version = "hunt_scorer_fallback"

\* C14: with several threads calling classify / classify_batch on the same
\* instance, at most one load of the model is ever started.
C14_OneLoadStarted == load_count <= 1

\* C15: with the fallback enabled, a call of classify whose load of the model
\* failed returns a result of the fallback tier instead of raising.
C15_LoadFailureFallsBack ==
    \A t \in Threads :
        (/\ use_fallback
         /\ th[t].kind = "classify"
         /\ th[t].pc = "idle"
         /\ th[t].load_outcome \in LoadFailures)
            => /\ th[t].ret = "returned"
               /\ th[t].results[1].model_version = "hunt_scorer_fallback"

\* C16: the fallback tier labels a score "huntable" exactly when it is at
\* least the threshold, with confidence min(0.95, 0.5 + |s - t| / 100), which
\* lies in [0.5, 0.95].
C16_FallbackLabelAndConfidence ==
    fallback_result # NoClassification =>
        /\ fallback_result.prediction \in {"huntable", "not_huntable"}
        /\ fallback_result.prediction = "huntable" <=> hunt_score >= hunt_score_threshold
        /\ fallback_result.confidence
              = Min(ConfidenceCap, ConfidenceFloor + Abs(hunt_score - hunt_score_threshold))
        /\ fallback_result.confidence >= ConfidenceFloor
        /\ fallback_result.confidence <= ConfidenceCap

\* a score exactly at the threshold has been classified, and one far enough
\* from it for the cap to apply could be
C16_ScoreAtThreshold ==
    /\ fallback_result # NoClassification
    /\ hunt_score = hunt_score_threshold
    /\ fallback_result.prediction = "huntable"
    /\ fallback_result.confidence = ConfidenceFloor

\* C17: classify_batch returns exactly one result per input, in the order of
\* the inputs, whether the bulk path completed, raised (possibly after it had
\* produced some results) or was not taken for want of a model.
C17_OneResultPerInput ==
    \A t \in Threads :
        (th[t].kind = "batch" /\ th[t].pc = "idle" /\ th[t].ret = "returned")
            => /\ Len(th[t].results) = Len(th[t].inputs)
               /\ \A k \in 1..Len(th[t].inputs) : th[t].results[k].of = th[t].inputs[k]

\* C18: the score HuntScorer returns lies in [0, 99.9] for every combination
\* of match counts in the five categories.
C18_ScoreInRange ==
    scorer_pc = "done" =>
        /\ score_result["threat_hunting_score"] >= 0
        /\ score_result["threat_hunting_score"] <= MaxScore

\* the four positive categories together exceed 99.9 and the cap applies
C18_CapApplies ==
    /\ scorer_pc = "done"
    /\ score_result["threat_hunting_score"] = MaxScore
    /\ 10 * (score_result["perfect"] + score_result["good"] + score_result["lolbas"]
              + score_result["intelligence"] - score_result["negative"]) > MaxScore * Scale

\* C19: the contribution of a category is category_max * (1 - 0.5^n) with n
\* the number of distinct keywords of the category that match the text: a
\* keyword the table lists twice counts once.
DistinctMatches(c) ==
    Cardinality({ k \in Keywords :
                    /\ \E j \in 1..Len(KeywordTable[c]) : KeywordTable[c][j] = k
                    /\ k \in full_text })

C19_DistinctKeywordsCount ==
    scorer_pc = "done" =>
        \A c \in Categories :
            score_result[c]
                = category_max(c) * (Scale - (Scale \div (2 ^ DistinctMatches(c))))

\* C20: for a configuration with min_chunk_words <= target_chunk_words <=
\* max_chunk_words, every chunk chunk_article returns, except possibly the
\* last one, has at least min_chunk_words words.
C20_MinimumChunkWords ==
    chunker_pc = "done" =>
        \A k \in 1..(Len(chunks) - 1) : chunks[k].word_count >= chunker.min_chunk_words

\* the chunks whose text holds every sentence of paragraph p, one after the
\* other
ChunksHolding(p) ==
    { k \in 1..Len(chunks) :
        \E at \in 0..(Len(chunks[k].text) - Len(content[p])) :
            \A j \in 1..Len(content[p]) : chunks[k].text[at + j] = content[p][j] }

FirstChunkHolding(p) ==
    CHOOSE k \in ChunksHolding(p) : \A m \in ChunksHolding(p) : k <= m

\* C21: chunk_article drops no paragraph: every paragraph of the content is
\* whole in at least one returned chunk, and the paragraphs come in their
\* original order across the sequence of chunks.
C21_NoParagraphDropped ==
    chunker_pc = "done" =>
        /\ \A p \in 1..Len(content) : ChunksHolding(p) # {}
        /\ \A p \in 1..(Len(content) - 1) : FirstChunkHolding(p) <= FirstChunkHolding(p + 1)

\* a chunk was closed because the next paragraph would exceed the maximum,
\* and that paragraph went into a later chunk after the overlap
C21_ParagraphAfterOverlap ==
    /\ chunker_pc = "done"
    /\ Len(content) >= 2
    /\ \E k \in 2..Len(chunks) :
           /\ Len(chunks[k].text) >= 2
           /\ chunks[k - 1].word_count < chunker.target_chunk_words
           /\ chunks[k].text[1].para = 1
           /\ chunks[k].text[2].para = 2
           /\ 1 \in ChunksHolding(1)
           /\ 1 \notin ChunksHolding(2)

\* C22: the loop of chunk_for_annotation terminates for every window_size and
\* step_size: each iteration moves the window forward, towards the end of the
\* content.
C22_WindowAdvances ==
    [][annotation_pc = "loop" /\ annotation_pc' = "loop" => position' > position]_vars

\* title and URL equal after lower-casing and trimming, contents equal
\* case-insensitively on the first HashPrefix characters
SameHashInputs(a, b) ==
    /\ strip(lower(a.title)) = strip(lower(b.title))
    /\ strip(lower(a.link)) = strip(lower(b.link))
    /\ lower(Truncated(a.content)) = lower(Truncated(b.content))

\* C23: two candidates whose titles and URLs are equal after lower-casing and
\* trimming and whose contents agree case-insensitively on the hashed prefix get
\* the same fingerprint; a poll of a feed with two such entries persists exactly
\* one Article and counts exactly one duplicate.
C23_SameFingerprint ==
    \A j \in 1..Len(feed.entries), k \in 1..Len(feed.entries) :
        LET a == feed.entries[j]
            b == feed.entries[k]
        IN  (j < k /\ ~Unparsed(a) /\ ~Unparsed(b) /\ SameHashInputs(a, b)) =>
               /\ _parse_entry(a).content_hash = _parse_entry(b).content_hash
               /\ (feed.status = "ok" /\ pc[1] = "done") =>
                     /\ Len(articles) = 1
                     /\ results[1].new_articles_saved = 1
                     /\ results[1].duplicate_articles_skipped = 1

C23_DifferBeyondPrefix ==
    /\ feed.status = "ok"
    /\ pc[1] = "done"
    /\ ~Unparsed(feed.entries[1])
    /\ SameHashInputs(feed.entries[1], feed.entries[2])
    /\ feed.entries[1].title # feed.entries[2].title
    /\ feed.entries[1].content # feed.entries[2].content
    /\ Len(feed.entries[1].content) > HashPrefix
    /\ Len(articles) = 1
    /\ results[1].duplicate_articles_skipped = 1

\* C25: when the feed as a whole cannot be fetched or parsed (the parser flags
\* it, or parsing raises), parse_feed returns a failure and the poll records a
\* failed check, never a successful check of zero articles.
C25_UnreadableFeedFails ==
    (feed.status # "ok" /\ checks[1] # <<>>) =>
        /\ ~parse_feed(feed).success
        /\ ~checks[1][Len(checks[1])].success

\* C24: a candidate with a new fingerprint whose canonical URL is that of a
\* persisted Article is rejected: the INSERT adds no Article and leaves the
\* existing one as it was.
C24_UrlConflictRejected ==
    [][\A i \in AllInvs :
          (/\ pc[i] = "commit_article"
           /\ pc'[i] = "select_article"
           /\ ~HashExists(articles, Head(cands[i]).content_hash)
           /\ UrlExists(articles, Head(cands[i]).url)) => articles' = articles]_vars

C24_UrlConflictSeen ==
    \E i \in AllInvs :
        /\ sessionError[i] = "canonical_url"
        /\ pc[i] = "select_article"
        /\ Cardinality({ k \in 1..Len(articles) : articles[k].canonical_url = 1 }) = 1

\* C26: every candidate scrape_page returns, by the configured selectors or by
\* either generic strategy, has a non-empty title and a non-empty resolved link.
C26_TitleAndLink ==
    page_pc = "done" =>
        \A k \in 1..Len(page_articles) :
            page_articles[k].title # "" /\ page_articles[k].url # ""

\* C27: after any sequence of activations, two concurrent activations of
\* different versions of one model included, at most one version of a model
\* name has is_active = True.
C27_OneActiveVersion ==
    \A v \in Versions, w \in Versions :
        (is_active[v] /\ is_active[w] /\ model_name(v) = model_name(w)) => v = w

C27_ConcurrentActivations ==
    /\ request_pc[1] = "commit"
    /\ request_pc[2] = "commit"
    /\ model_id[1] = 1
    /\ model_id[2] = 2
    /\ 2 \in deactivated[1]
    /\ 1 \in deactivated[2]
    /\ \E v \in Versions : is_active[v]

\* the failed checks of a source newer than its last successful one
FailureStreak(history) ==
    LET succeeded == { k \in 1..Len(history) : history[k].success }
        last == IF succeeded = {} THEN 0
                ELSE CHOOSE k \in succeeded : \A m \in succeeded : m <= k
    IN  Len(history) - last

\* C28: with invocations that do not overlap, consecutive_failures of a source
\* is the number of its failed checks newer than its last successful one, and
\* last_success is set exactly when one of its checks succeeded.
C28_HealthMatchesHistory ==
    \A s \in Sources :
        /\ sources[s].consecutive_failures = FailureStreak(checks[s])
        /\ (sources[s].last_success # 0) <=> (\E k \in 1..Len(checks[s]) : checks[s][k].success)

C28_FailureAfterSuccess ==
    \E s \in Sources :
        /\ Len(checks[s]) = 2
        /\ checks[s][1].success
        /\ ~checks[s][2].success
        /\ sources[s].consecutive_failures = 1
        /\ sources[s].last_success # 0

\* C29: scrape_source_by_identifier reports success = True only when the fetch
\* of the source succeeded: a poll whose fetch failed (an errors entry, a failed
\* SourceCheck) returns success = False.
C29_FailedFetchReported ==
    \A i \in AllInvs :
        (pc[i] = "done" /\ mode[i] = "one" /\ results[i].errors # <<>>) =>
            results[i].success = "false"

\* C30: every candidate a fetcher returned during a pass is accounted for once,
\* as saved, as a duplicate or as an entry of errors: at the end of the pass the
\* candidates that are neither saved nor duplicates are no more than the
\* entries of errors, and none when errors is empty.
C30_CandidatesAccounted ==
    \A i \in AllInvs :
        (pc[i] = "done" /\ mode[i] = "all") =>
            results[i].total_articles_found
                - results[i].new_articles_saved
                - results[i].duplicate_articles_skipped <= Len(results[i].errors)

====
